---- MODULE Spec2Model ----
(***************************************************************************)
(* Model of src/main.rs: the user-registration validation flow.            *)
(*                                                                         *)
(* A Rust String is modelled as a sequence of one-character strings, so    *)
(* that substring search, regex matching and joining are computed on the   *)
(* characters.  Option<T> is a sequence of length 0 (None) or 1 (Some).    *)
(* anyhow::Result<T> is a record [ok, val, msg]: val is Some(v) on Ok and  *)
(* msg is the error message on Err.                                        *)
(***************************************************************************)
EXTENDS Integers, Sequences, FiniteSets, TLC

VARIABLES
    pc,              \* "start" | "created" | "failed" | "checked"
    op,              \* the last operation that ran
    in_email,        \* arguments of the last create_user / check_email call
    in_age,          \* argument of the last create_user / check_age call
    in_name,
    in_middle_name,
    in_surname,
    user,            \* Option<User>: the caller's `user` binding
    result,          \* the Result the last operation returned
    fullname,        \* Option<String>: the last get_fullname output
    grants           \* number of grant_user calls made on the user

vars == <<pc, op, in_email, in_age, in_name, in_middle_name, in_surname,
          user, result, fullname, grants>>

----------------------------------------------------------------------------
(* Bounds of the model *)

\* longest string handed to check_email alone
MaxLen == 6
\* longest email string handed to create_user
MaxEmailLen == 6
\* ages handed to check_age alone range over -AgeMargin .. 120 + AgeMargin
AgeMargin == 3
\* grant_user calls made on one user
MaxGrants == 3

----------------------------------------------------------------------------
(* Option and Result *)

None == <<>>
Some(x) == <<x>>
Ok(v) == [ok |-> TRUE, val |-> Some(v), msg |-> ""]
Err(m) == [ok |-> FALSE, val |-> None, msg |-> m]
Unit == "()"
NoResult == [ok |-> TRUE, val |-> None, msg |-> ""]

----------------------------------------------------------------------------
(* Characters *)

Letters == {"o", "k"}
Digits == {"7"}
\* \w of the regex crate: letters, digits and the underscore
Word == Letters \cup Digits \cup {"_"}
\* [\w.]
WordOrDot == Word \cup {"."}
Chars == Word \cup {".", "@", "-"}
\* the characters of the emails handed to create_user
UserChars == {"o", "k", ".", "@"}

\* every string over the characters A of length at most n
StringsUpTo(A, n) == UNION {[1..k -> A] : k \in 0..n}

----------------------------------------------------------------------------
(* Error messages *)

NegativeAge == "Age cannot be negative"
UnderageUser == "Sorry but this service is unavailable for minor of 13 years old"
ImplausibleAge == "I don't think you can be immortal"
InvalidEmailFormat == "Invalid email"
NotYetVerified == "Email has not been verified yet"

----------------------------------------------------------------------------
(* Types: Email, VerifiedEmail, UnverifiedEmail, Age, UserEmail, User *)

Email(s) == s
Age(a) == a
VerifiedEmail(e) == [tag |-> "VerifiedEmail", email |-> e]
UnverifiedEmail(e) == [tag |-> "UnverifiedEmail", email |-> e]

\* mutant of User_new: the email is wrapped in the VerifiedEmail variant
User_new_verified(name, middle_name, surname, age, email) ==
    [name |-> name,
     middle_name |-> middle_name,
     surname |-> surname,
     age |-> age,
     email |-> VerifiedEmail(email)]

\* User::new: the email always starts in the UnverifiedEmail variant
User_new(name, middle_name, surname, age, email) ==
    [name |-> name,
     middle_name |-> middle_name,
     surname |-> surname,
     age |-> age,
     email |-> UnverifiedEmail(email)]

----------------------------------------------------------------------------
(* str::contains *)

contains(s, pat) ==
    \E i \in 1..(Len(s) - Len(pat) + 1) : SubSeq(s, i, i + Len(pat) - 1) = pat

----------------------------------------------------------------------------
(* verify_email *)

\* mutant of verify_email: starts_with("ok") in place of contains("ok")
verify_email_starts_with(email) ==
    LET unverified_email == email.email
        is_ok == Len(unverified_email) >= 2
                 /\ SubSeq(unverified_email, 1, 2) = <<"o", "k">>
    IN  IF is_ok
        THEN Ok(VerifiedEmail(Email(unverified_email)))
        ELSE Err(NotYetVerified)

verify_email(email) ==
    LET unverified_email == email.email
        is_ok == contains(unverified_email, <<"o", "k">>)
    IN  IF is_ok
        THEN Ok(VerifiedEmail(Email(unverified_email)))
        ELSE Err(NotYetVerified)

----------------------------------------------------------------------------
(* The regex ^[\w.]+@[\w.]+\.\w+$ and Regex::is_match *)

\* the pieces between the anchors, in order; plus: the piece repeats (+)
EmailRegex ==
    << [class |-> WordOrDot, plus |-> TRUE],
       [class |-> {"@"},     plus |-> FALSE],
       [class |-> WordOrDot, plus |-> TRUE],
       [class |-> {"."},     plus |-> FALSE],
       [class |-> Word,      plus |-> TRUE] >>

\* NFA state k: the last character read was matched by piece k (0: none read)
RegexStep(re, k, c) ==
    (IF k >= 1 /\ re[k].plus /\ c \in re[k].class THEN {k} ELSE {})
    \cup (IF k < Len(re) /\ c \in re[k + 1].class THEN {k + 1} ELSE {})

RECURSIVE RegexRun(_, _, _)
\* the NFA states reached from state 0 by reading s[1..n]
RegexRun(re, s, n) ==
    IF n = 0 THEN {0}
    ELSE UNION {RegexStep(re, k, s[n]) : k \in RegexRun(re, s, n - 1)}

\* mutant of is_match: the regex without its ^ anchor
is_match_no_start_anchor(re, s) ==
    \E i \in 0..Len(s) :
        Len(re) \in RegexRun(re, SubSeq(s, i + 1, Len(s)), Len(s) - i)

\* mutant of is_match: the regex without its $ anchor
is_match_no_end_anchor(re, s) ==
    \E n \in 0..Len(s) : Len(re) \in RegexRun(re, s, n)

\* ^ and $: the match starts at the first character and ends at the last
is_match(re, s) == Len(re) \in RegexRun(re, s, Len(s))

----------------------------------------------------------------------------
(* check_email *)

check_email(email) ==
    IF is_match(EmailRegex, email)
    THEN Ok(Email(email))
    ELSE Err(InvalidEmailFormat)

----------------------------------------------------------------------------
(* check_age *)

\* mutant of check_age: the x < 13 arm comes before the x < 0 arm
check_age_minor_first(age) ==
    IF age < 13 THEN Err(UnderageUser)
    ELSE IF age < 0 THEN Err(NegativeAge)
    ELSE IF age > 120 THEN Err(ImplausibleAge)
    ELSE Ok(Age(age))

\* the match arms are tried in order
check_age(age) ==
    IF age < 0 THEN Err(NegativeAge)
    ELSE IF age < 13 THEN Err(UnderageUser)
    ELSE IF age > 120 THEN Err(ImplausibleAge)
    ELSE Ok(Age(age))

----------------------------------------------------------------------------
(* create_user: the ? operator returns the first error *)

\* mutant of create_user: check_email runs before check_age
create_user_email_first(email, age, name, surname, middle_name) ==
    LET email_r == check_email(email) IN
    IF ~email_r.ok THEN Err(email_r.msg)
    ELSE LET age_r == check_age(age) IN
         IF ~age_r.ok THEN Err(age_r.msg)
         ELSE Ok(User_new(name, middle_name, surname, age_r.val[1], email_r.val[1]))

create_user(email, age, name, surname, middle_name) ==
    LET age_r == check_age(age) IN
    IF ~age_r.ok THEN Err(age_r.msg)
    ELSE LET email_r == check_email(email) IN
         IF ~email_r.ok THEN Err(email_r.msg)
         ELSE Ok(User_new(name, middle_name, surname, age_r.val[1], email_r.val[1]))

----------------------------------------------------------------------------
(* grant_user: takes &mut User; returns the user as left and the Result *)

\* mutant of grant_user: a Verified email is put back to Unverified
grant_user_demotes(u) ==
    IF u.email.tag = "UnverifiedEmail"
    THEN LET verified_email == verify_email(u.email) IN
         IF ~verified_email.ok
         THEN [user |-> u, result |-> Err(verified_email.msg)]
         ELSE [user |-> [u EXCEPT !.email = verified_email.val[1]],
               result |-> Ok(Unit)]
    ELSE [user |-> [u EXCEPT !.email = UnverifiedEmail(u.email.email)],
          result |-> Ok(Unit)]

\* mutant of grant_user: a Verified email is an error
grant_user_rejects_verified(u) ==
    IF u.email.tag = "UnverifiedEmail"
    THEN LET verified_email == verify_email(u.email) IN
         IF ~verified_email.ok
         THEN [user |-> u, result |-> Err(verified_email.msg)]
         ELSE [user |-> [u EXCEPT !.email = verified_email.val[1]],
               result |-> Ok(Unit)]
    ELSE [user |-> u, result |-> Err(NotYetVerified)]

\* mutant of grant_user: the verified user is built anew, without middle name
grant_user_rebuilds(u) ==
    IF u.email.tag = "UnverifiedEmail"
    THEN LET verified_email == verify_email(u.email) IN
         IF ~verified_email.ok
         THEN [user |-> u, result |-> Err(verified_email.msg)]
         ELSE [user |-> [name |-> u.name,
                         middle_name |-> None,
                         surname |-> u.surname,
                         age |-> u.age,
                         email |-> verified_email.val[1]],
               result |-> Ok(Unit)]
    ELSE [user |-> u, result |-> Ok(Unit)]

grant_user(u) ==
    IF u.email.tag = "UnverifiedEmail"
    THEN LET verified_email == verify_email(u.email) IN
         IF ~verified_email.ok
         THEN [user |-> u, result |-> Err(verified_email.msg)]
         ELSE [user |-> [u EXCEPT !.email = verified_email.val[1]],
               result |-> Ok(Unit)]
    ELSE [user |-> u, result |-> Ok(Unit)]

----------------------------------------------------------------------------
(* get_fullname *)

\* mutant of flatten: a None becomes an empty segment (unwrap_or_default)
flatten_keeps_none(v) ==
    [i \in 1..Len(v) |-> IF v[i] = None THEN <<>> ELSE v[i][1]]

\* Iterator::flatten over a Vec<Option<String>>
RECURSIVE flatten(_)
flatten(v) ==
    IF v = <<>> THEN <<>>
    ELSE v[1] \o flatten(Tail(v))

\* [String]::join
RECURSIVE join(_, _)
join(v, sep) ==
    IF v = <<>> THEN <<>>
    ELSE IF Len(v) = 1 THEN v[1]
    ELSE v[1] \o sep \o join(Tail(v), sep)

get_fullname(u) ==
    LET middle_name == u.middle_name
    IN  join(flatten(<<Some(u.name), middle_name, Some(u.surname)>>), <<" ">>)

----------------------------------------------------------------------------
(* Inputs *)

\* i32
I32Max == 2147483647
I32Min == (0 - I32Max) - 1

\* ages handed to check_age alone
AgeInputs == ((0 - AgeMargin)..(120 + AgeMargin)) \cup {I32Min, I32Max}
\* ages handed to create_user: the boundaries of each arm, and the tests' values
UserAges == {-100, -1, 0, 12, 13, 22, 120, 121, 130}
\* strings handed to check_email alone
EmailInputs == StringsUpTo(Chars, MaxLen)
\* emails handed to create_user
UserEmails == StringsUpTo(UserChars, MaxEmailLen)
Names == {<<"L">>, <<>>}
Surnames == {<<"R">>, <<" ">>}
MiddleNames == {None, Some(<<"M">>), Some(<<>>)}

----------------------------------------------------------------------------
(* The caller: main and the tests *)

Blank ==
    /\ pc = "start"
    /\ op = "none"
    /\ in_name = <<>>
    /\ in_middle_name = None
    /\ in_surname = <<>>
    /\ user = None
    /\ result = NoResult
    /\ fullname = None
    /\ grants = 0

Init ==
    /\ Blank
    /\ in_email = <<>>
    /\ in_age = 0

\* let mut user = create_user(...)?
CreateUser ==
    /\ pc = "start"
    /\ \E email \in UserEmails, age \in UserAges, name \in Names,
          surname \in Surnames, middle_name \in MiddleNames :
          LET r == create_user(email, age, name, surname, middle_name) IN
          /\ in_email' = email
          /\ in_age' = age
          /\ in_name' = name
          /\ in_surname' = surname
          /\ in_middle_name' = middle_name
          /\ result' = r
          /\ user' = r.val
          /\ pc' = IF r.ok THEN "created" ELSE "failed"
    /\ op' = "create_user"
    /\ UNCHANGED <<fullname, grants>>

\* grant_user(&mut user)
GrantUser ==
    /\ pc = "created"
    /\ grants < MaxGrants
    /\ LET g == grant_user(user[1]) IN
          /\ user' = Some(g.user)
          /\ result' = g.result
    /\ grants' = grants + 1
    /\ op' = "grant_user"
    /\ UNCHANGED <<pc, in_email, in_age, in_name, in_middle_name, in_surname,
                   fullname>>

\* get_fullname(&user)
GetFullname ==
    /\ pc = "created"
    /\ fullname' = Some(get_fullname(user[1]))
    /\ op' = "get_fullname"
    /\ UNCHANGED <<pc, in_email, in_age, in_name, in_middle_name, in_surname,
                   user, result, grants>>

Next == CreateUser \/ GrantUser \/ GetFullname

Spec == Init /\ [][Next]_vars

----------------------------------------------------------------------------
(* check_age applied on its own *)

InitAge ==
    /\ Blank
    /\ in_email = <<>>
    /\ in_age \in AgeInputs

CheckAge ==
    /\ pc = "start"
    /\ result' = check_age(in_age)
    /\ pc' = "checked"
    /\ op' = "check_age"
    /\ UNCHANGED <<in_email, in_age, in_name, in_middle_name, in_surname,
                   user, fullname, grants>>

NextAge == CheckAge

SpecAge == InitAge /\ [][NextAge]_vars

----------------------------------------------------------------------------
(* check_email applied on its own *)

InitEmail ==
    /\ Blank
    /\ in_email \in EmailInputs
    /\ in_age = 0

CheckEmail ==
    /\ pc = "start"
    /\ result' = check_email(in_email)
    /\ pc' = "checked"
    /\ op' = "check_email"
    /\ UNCHANGED <<in_email, in_age, in_name, in_middle_name, in_surname,
                   user, fullname, grants>>

NextEmail == CheckEmail

SpecEmail == InitEmail /\ [][NextEmail]_vars

----------------------------------------------------------------------------
(* The properties are stated with these, not with the operators above *)

IsLetter(c) == c \in {"o", "k"}
IsWordChar(c) == IsLetter(c) \/ c = "7" \/ c = "_"
IsWordOrDot(c) == IsWordChar(c) \/ c = "."

\* s is L @ D . T with L and D non-empty over word characters and dots and T
\* non-empty over word characters; a and d are the places of the @ and the dot
MatchesPattern(s) ==
    \E a \in 1..Len(s), d \in 1..Len(s) :
        /\ s[a] = "@"
        /\ s[d] = "."
        /\ 2 <= a
        /\ a + 2 <= d
        /\ d + 1 <= Len(s)
        /\ \A i \in 1..(a - 1) : IsWordOrDot(s[i])
        /\ \A i \in (a + 1)..(d - 1) : IsWordOrDot(s[i])
        /\ \A i \in (d + 1)..Len(s) : IsWordChar(s[i])

HasOk(s) == \E i \in 1..(Len(s) - 1) : s[i] = "o" /\ s[i + 1] = "k"

\* the characters after the last dot of s (all of s when it has no dot)
TopLevelSegment(s) ==
    LET dots == {i \in 1..Len(s) : s[i] = "."}
        last == IF dots = {} THEN 0 ELSE CHOOSE i \in dots : \A j \in dots : j <= i
    IN  SubSeq(s, last + 1, Len(s))

IsErr(m) == ~result.ok /\ result.msg = m
TheUser == user[1]
IsGrantStep == pc = "created" /\ grants' = grants + 1

----------------------------------------------------------------------------
\* C1: grant_user on a user whose email is Unverified with content c: when c
\* contains "ok" the call returns Ok and the email becomes Verified with the
\* same content; otherwise it returns the error "Email has not been verified
\* yet" and the email stays Unverified with the same content.
C1_GrantUnverified ==
    [][(IsGrantStep /\ TheUser.email.tag = "UnverifiedEmail") =>
          LET c == TheUser.email.email IN
          IF HasOk(c)
          THEN /\ result' = Ok(Unit)
               /\ user'[1].email = [tag |-> "VerifiedEmail", email |-> c]
          ELSE /\ result' = Err(NotYetVerified)
               /\ user'[1].email = [tag |-> "UnverifiedEmail", email |-> c]]_vars

\* a grant_user call has failed on an email without "ok" and left it Unverified
C1_Witness ==
    /\ pc = "created"
    /\ op = "grant_user"
    /\ IsErr(NotYetVerified)
    /\ TheUser.email.tag = "UnverifiedEmail"
    /\ ~HasOk(TheUser.email.email)

----------------------------------------------------------------------------
\* C2: check_age returns NegativeAge iff a < 0, UnderageUser iff 0 <= a < 13,
\* ImplausibleAge iff a > 120, and Ok(Age(a)) iff 13 <= a <= 120.
C2_CheckAge ==
    (op = "check_age") =>
        /\ (result = Err(NegativeAge)) <=> (in_age < 0)
        /\ (result = Err(UnderageUser)) <=> (0 <= in_age /\ in_age < 13)
        /\ (result = Err(ImplausibleAge)) <=> (in_age > 120)
        /\ (result = Ok(in_age)) <=> (13 <= in_age /\ in_age <= 120)

\* a negative age has been reported as NegativeAge
C2_Witness ==
    /\ op = "check_age"
    /\ in_age < 0
    /\ result = Err(NegativeAge)

----------------------------------------------------------------------------
\* C3: create_user reports the age error whenever the age is invalid, also
\* when the email is invalid too; it reports InvalidEmailFormat only when the
\* age is in 13..120 and the email fails the pattern; on failure no User exists.
C3_CreateOrder ==
    (op = "create_user") =>
        /\ (in_age < 0) => IsErr(NegativeAge)
        /\ (0 <= in_age /\ in_age < 13) => IsErr(UnderageUser)
        /\ (in_age > 120) => IsErr(ImplausibleAge)
        /\ IsErr(InvalidEmailFormat) =>
              (13 <= in_age /\ in_age <= 120 /\ ~MatchesPattern(in_email))
        /\ ~result.ok => (user = None /\ pc = "failed")

\* both inputs were invalid and the age error was the one reported
C3_Witness ==
    /\ op = "create_user"
    /\ in_age > 120
    /\ ~MatchesPattern(in_email)
    /\ IsErr(ImplausibleAge)

----------------------------------------------------------------------------
\* C4: the User of a successful create_user has its email Unverified, wrapping
\* exactly the input string, also when the string contains "ok".
C4_CreatedUnverified ==
    (op = "create_user" /\ result.ok) =>
        /\ pc = "created"
        /\ user = result.val
        /\ TheUser.email = [tag |-> "UnverifiedEmail", email |-> in_email]

\* a user was created from an email that contains "ok"
C4_Witness ==
    /\ op = "create_user"
    /\ result.ok
    /\ HasOk(in_email)

----------------------------------------------------------------------------
\* C5: once the email is Verified it is Verified in every later state.
C5_OneDirectional ==
    [][(pc = "created" /\ TheUser.email.tag = "VerifiedEmail") =>
          user'[1].email.tag = "VerifiedEmail"]_vars

\* operations have run on a user after its email became Verified
C5_Witness ==
    /\ pc = "created"
    /\ TheUser.email.tag = "VerifiedEmail"
    /\ op = "get_fullname"
    /\ grants >= 2

----------------------------------------------------------------------------
\* C6: grant_user after a grant_user that succeeded, or on a user whose email
\* is already Verified, returns Ok and leaves the user as it was.
C6_Idempotent ==
    [][(/\ IsGrantStep
        /\ \/ (grants >= 1 /\ result.ok)
           \/ TheUser.email.tag = "VerifiedEmail") =>
          (result' = Ok(Unit) /\ user' = user)]_vars

\* a second grant_user call has succeeded
C6_Witness ==
    /\ pc = "created"
    /\ op = "grant_user"
    /\ grants >= 2
    /\ result = Ok(Unit)
    /\ TheUser.email.tag = "VerifiedEmail"

----------------------------------------------------------------------------
\* C7: after construction name, middle_name, surname, age and the email's
\* content equal the values passed to create_user, whatever grant_user did.
C7_Frame ==
    (pc = "created") =>
        /\ TheUser.name = in_name
        /\ TheUser.middle_name = in_middle_name
        /\ TheUser.surname = in_surname
        /\ TheUser.age = in_age
        /\ TheUser.email.email = in_email

\* grant_user has verified the email of a user that has a middle name
C7_Witness ==
    /\ pc = "created"
    /\ grants >= 1
    /\ TheUser.email.tag = "VerifiedEmail"
    /\ in_middle_name = Some(<<"M">>)
    /\ TheUser.middle_name = Some(<<"M">>)

----------------------------------------------------------------------------
\* C8: check_email succeeds exactly for the strings that match the pattern
\* over their entire length, returning the input unchanged; every other
\* string fails with InvalidEmailFormat.
C8_CheckEmail ==
    (op = "check_email") =>
        IF MatchesPattern(in_email)
        THEN result = Ok(in_email)
        ELSE result = Err(InvalidEmailFormat)

\* a string that holds a matching string after a character outside the
\* pattern has been rejected
C8_Witness ==
    /\ op = "check_email"
    /\ Len(in_email) >= 2
    /\ MatchesPattern(Tail(in_email))
    /\ in_email[1] = "-"
    /\ result = Err(InvalidEmailFormat)

----------------------------------------------------------------------------
----------------------------------------------------------------------------
\* C10: get_fullname returns name, middle_name if present, and surname with
\* one space between consecutive segments.
C10_Fullname ==
    /\ (op = "get_fullname") => fullname # None
    /\ (fullname # None) =>
          fullname[1] =
              IF TheUser.middle_name = None
              THEN TheUser.name \o <<" ">> \o TheUser.surname
              ELSE TheUser.name \o <<" ">> \o TheUser.middle_name[1]
                       \o <<" ">> \o TheUser.surname

\* the full name of a user without a middle name has been computed
C10_Witness ==
    /\ fullname = Some(<<"L", " ", "R">>)
    /\ TheUser.middle_name = None

====
